---- MODULE Spec2Model ----
(***************************************************************************)
(* Model of the puppetizer init supervisor (src/init/init.c): the event    *)
(* loop thread (init_loop, init_handle_signal, init_handle_client_command) *)
(* and the halt worker threads started by init_halt_thread, which run      *)
(* init_halt concurrently with the loop.                                   *)
(*                                                                         *)
(* The loop thread takes one step per dispatched event, except that a      *)
(* START/STOP command is split between its read of is_halting and the      *)
(* registry call that follows it, because a halt worker may write          *)
(* is_halting in between.  A halt worker takes one step per statement of   *)
(* init_halt that touches shared state.                                    *)
(***************************************************************************)
EXTENDS Integers, FiniteSets, Sequences, TLC

\* ---------------------------------------------------------------- bounds
NumServices == 2      \* services in the registry
MaxPid      == 2      \* size of the PID space (PIDs are reused)
MaxThreads  == 2      \* pthread_create calls that may succeed
MaxClients  == 1      \* client descriptors that accept may hand out

Services == 1..NumServices
Pids     == 1..MaxPid
Threads  == 1..MaxThreads
Clients  == 1..MaxClients
Retvals  == {0, 1}

\* ------------------------------------------------- constants of the code
NoSvc  == 0           \* NULL result of service_find_by_name / _by_pid
NoPid  == 0           \* a registry entry without a process
NoThread == 0         \* static pthread_t halt_thread = 0

\* service_state_t (service.h)
STATE_DOWN         == 0
STATE_PENDING_UP   == 1
STATE_UP           == 2
STATE_PENDING_DOWN == 3
ServiceStates == {STATE_DOWN, STATE_PENDING_UP, STATE_UP, STATE_PENDING_DOWN}

\* control_reponse_t (control.h)
CMD_RESPONSE_OK            == 0
CMD_RESPONSE_FAILED        == 1
CMD_RESPONSE_ERROR         == 2
CMD_RESPONSE_FAILED_LOOKUP == 3
CMD_RESPONSE_STATE         == 4
ResponseTags == {CMD_RESPONSE_OK, CMD_RESPONSE_FAILED, CMD_RESPONSE_ERROR,
                 CMD_RESPONSE_FAILED_LOOKUP, CMD_RESPONSE_STATE}
ResponseBits == 8     \* width of the response word
TagBits      == 4     \* svc->state << 4

\* command->type: the three cases of the switch, and any other value
CommandTypes == {"CMD_START", "CMD_STOP", "CMD_STATUS", "CMD_OTHER"}

\* ------------------------------------------------------ bit arithmetic
RECURSIVE Pow2(_)
Pow2(n) == IF n = 0 THEN 1 ELSE 2 * Pow2(n - 1)

RECURSIVE BitOr(_, _)
BitOr(a, b) ==
    IF a = 0 THEN b
    ELSE IF b = 0 THEN a
    ELSE (IF a % 2 = 1 \/ b % 2 = 1 THEN 1 ELSE 0) + 2 * BitOr(a \div 2, b \div 2)

ShiftLeft(a, n) == a * Pow2(n)

\* ret = svc->state<<4 | CMD_RESPONSE_STATE, stored in a control_reponse_t
StatusResponse_shift2(state) ==
    BitOr(ShiftLeft(state, 2), CMD_RESPONSE_STATE) % Pow2(ResponseBits)

StatusResponse(state) ==
    BitOr(ShiftLeft(state, TagBits), CMD_RESPONSE_STATE) % Pow2(ResponseBits)

\* what the client reads back: tag in the low 4 bits, state above them
ResponseTag(resp)   == resp % Pow2(TagBits)
ResponseState(resp) == resp \div Pow2(TagBits)

VARIABLES
    is_halting,   \* static bool is_halting
    boot_pid,     \* static pid_t boot_pid
    boot_alive,   \* the process started by init_boot has not been reaped yet
    halt_thread,  \* static pthread_t halt_thread
    services,     \* the registry: service -> [state, pid]
    threads,      \* halt worker -> position in init_halt
    loop_pc,      \* position of the loop thread
    ready,        \* descriptors of the current epoll_wait batch not yet handled
    exit_code,    \* init_loop's local exit_code
    clients,      \* client descriptor -> "free" | "open" | "shut"
    cur,          \* START/STOP command between its is_halting test and its call
    exit_status,  \* "running", or the status the process exited with
    born,         \* pids forked while the current batch is handled
    ev            \* the last event the loop dispatched (observation only)

vars == <<is_halting, boot_pid, boot_alive, halt_thread, services, threads,
          loop_pc, ready, exit_code, clients, cur, exit_status, born, ev>>

NoReady == [sig |-> FALSE, ctl |-> FALSE, cl |-> {}]
NoCur   == [fd |-> 0, type |-> "none", svc |-> NoSvc]

\* an event that sends no response: a value no response word can hold
NoResponse == Pow2(ResponseBits)
Event(kind) == [kind |-> kind, resp |-> NoResponse, halting |-> FALSE]

\* a command answered with resp; halting is what is_halting was at the send
Response(kind, resp) == [kind |-> kind, resp |-> resp, halting |-> is_halting]

Init ==
    /\ is_halting = FALSE
    /\ boot_pid = 1     \* the pid spawn1 returned; PIDs are interchangeable
    /\ boot_alive = TRUE
    /\ halt_thread = NoThread
    /\ services = [s \in Services |-> [state |-> STATE_DOWN, pid |-> NoPid]]
    /\ threads = [t \in Threads |-> "none"]
    /\ loop_pc = "wait"
    /\ ready = NoReady
    /\ exit_code = "0"
    /\ clients = [c \in Clients |-> "free"]
    /\ cur = NoCur
    /\ exit_status = "running"
    /\ born = {}
    /\ ev = Event("none")

\* the process is gone once main returned or fatal() called exit
ProcessAlive == exit_status = "running"

\* ------------------------------------------------------------ registry
\* (service.c is not part of the sources; modelled from its interface)
service_find_by_name(name) == IF name \in Services THEN name ELSE NoSvc

service_find_by_pid(pid) ==
    IF \E s \in Services : services[s].pid = pid
    THEN CHOOSE s \in Services : services[s].pid = pid
    ELSE NoSvc

service_set_down(reg, s) ==
    [reg EXCEPT ![s] = [state |-> STATE_DOWN, pid |-> NoPid]]

\* PIDs no live process of the model holds
FreePids ==
    Pids \ ({services[s].pid : s \in Services}
             \cup (IF boot_alive THEN {boot_pid} ELSE {}))

\* a DOWN service is spawned with a fresh pid; the call fails when the
\* service is not DOWN or no process could be forked (pid = NoPid)
service_can_start(reg, s, pid) == reg[s].state = STATE_DOWN /\ pid # NoPid

service_start(reg, s, pid) ==
    [reg EXCEPT ![s] = [state |-> STATE_UP, pid |-> pid]]

\* a running service is told to stop; it stays registered until it is reaped
service_stop(reg, s) ==
    [reg EXCEPT ![s].state = STATE_PENDING_DOWN]

service_can_stop(reg, s) == reg[s].state \in {STATE_PENDING_UP, STATE_UP}

service_stop_all(reg) ==
    [s \in Services |->
        IF service_can_stop(reg, s)
        THEN [reg[s] EXCEPT !.state = STATE_PENDING_DOWN]
        ELSE reg[s]]

service_count_by_state(state, negate) ==
    Cardinality({s \in Services : (services[s].state = state) # negate})

\* ------------------------------------------------------- halt workers
NumCreated == Cardinality({t \in Threads : threads[t] # "none"})

\* if (is_halting) return;
HaltCheck(t) ==
    /\ ProcessAlive
    /\ threads[t] = "check"
    /\ threads' = [threads EXCEPT ![t] = IF is_halting THEN "noop" ELSE "set"]
    /\ UNCHANGED <<is_halting, boot_pid, boot_alive, halt_thread, services,
                   loop_pc, ready, exit_code, clients, cur, exit_status, born, ev>>

\* is_halting = TRUE;
HaltSetFlag(t) ==
    /\ ProcessAlive
    /\ threads[t] = "set"
    /\ is_halting' = TRUE
    /\ threads' = [threads EXCEPT ![t] = "apply"]
    /\ UNCHANGED <<boot_pid, boot_alive, halt_thread, services,
                   loop_pc, ready, exit_code, clients, cur, exit_status, born, ev>>

\* if (ret != 0) log_error(...): a non-zero result is logged, nothing more
AfterApply_abort(ret) == IF ret = 0 THEN "stop_all" ELSE "done"

AfterApply(ret) == "stop_all"

\* ret = spawn2_wait(PUPPETIZER_APPLY, "halt") returns
HaltApply(t, ret) ==
    /\ ProcessAlive
    /\ threads[t] = "apply"
    /\ threads' = [threads EXCEPT ![t] = AfterApply(ret)]
    /\ UNCHANGED <<is_halting, boot_pid, boot_alive, halt_thread, services,
                   loop_pc, ready, exit_code, clients, cur, exit_status, born, ev>>

\* i = service_stop_all(); the count is only logged
HaltStopAll(t) ==
    /\ ProcessAlive
    /\ threads[t] = "stop_all"
    /\ services' = service_stop_all(services)
    /\ threads' = [threads EXCEPT ![t] = "done"]
    /\ UNCHANGED <<is_halting, boot_pid, boot_alive, halt_thread,
                   loop_pc, ready, exit_code, clients, cur, exit_status, born, ev>>


\* ---------------------------------------------------------- loop thread
Registered == [sig : BOOLEAN, ctl : BOOLEAN,
               cl : SUBSET {c \in Clients : clients[c] = "open"}]

\* changes = epoll_wait(fd_epoll, events, 10, 500): a batch of ready
\* descriptors, each at most once; the empty batch is the timeout
EpollWait ==
    /\ ProcessAlive
    /\ loop_pc = "wait"
    /\ \E r \in Registered : ready' = r
    /\ loop_pc' = "events"
    /\ UNCHANGED <<is_halting, boot_pid, boot_alive, halt_thread, services,
                   threads, exit_code, clients, cur, exit_status, born, ev>>

\* fatal(...): the message is logged and the process exits at once, whatever
\* the other threads do; the loop's locals are gone with it
Fatal(code) ==
    /\ loop_pc' = "fatal"
    /\ exit_status' = code
    /\ ready' = NoReady
    /\ cur' = NoCur
    /\ ev' = Event("fatal")

\* the loop goes on to the next descriptor of the batch
Continue(r, e) ==
    /\ loop_pc' = "events"
    /\ ready' = r
    /\ cur' = NoCur
    /\ ev' = e
    /\ UNCHANGED exit_status

\* exit_code = code; break;  (leaves the for over the batch)
Break(code, e) ==
    /\ exit_code' = code
    /\ Continue(NoReady, e)

\* epoll_wait returned -1
EpollWaitFails ==
    /\ ProcessAlive
    /\ loop_pc = "wait"
    /\ Fatal("ERROR_EPOLL_WAIT")
    /\ UNCHANGED <<born, is_halting, boot_pid, boot_alive, halt_thread, services,
                   threads, exit_code, clients>>

\* read(fd_signal, ...) != sizeof(struct signalfd_siginfo)
BadSignalRead ==
    /\ ProcessAlive
    /\ loop_pc = "events"
    /\ ready.sig
    /\ Break("ERROR_EPOLL_SIGNAL_MESSAGE", Event("BADSIG"))
    /\ UNCHANGED <<born, is_halting, boot_pid, boot_alive, halt_thread, services,
                   threads, clients>>

\* pthread_create(&halt_thread, NULL, init_halt, NULL) returned 0
init_halt_thread ==
    /\ NumCreated < MaxThreads
    /\ threads' = [threads EXCEPT ![NumCreated + 1] = "check"]
    /\ halt_thread' = NumCreated + 1

\* init_halt_thread() called from the signal handler: the thread runs, or
\* pthread_create failed and fatal() ends the process
SpawnHaltThread(e) ==
    \/ /\ init_halt_thread
       /\ Continue([ready EXCEPT !.sig = FALSE], e)
    \/ /\ Fatal("ERROR_THREAD_FAILED")
       /\ UNCHANGED <<threads, halt_thread>>

\* boot_pid == info->ssi_pid with a non-zero retval: return FALSE
BootFailed(pid, retval) == boot_pid = pid /\ retval # 0

\* svc_state != STATE_PENDING_DOWN || retval != 0
UnexpectedDeath(svc_state, retval) ==
    svc_state # STATE_PENDING_DOWN \/ retval # 0

\* the branch of the reaped child that reaches init_halt_thread()
HaltOnReap_anychild(svc, svc_state, retval) ==
    UnexpectedDeath(svc_state, retval)

HaltOnReap(svc, svc_state, retval) ==
    svc # NoSvc /\ UnexpectedDeath(svc_state, retval)

\* the process whose exit this SIGCHLD reports is gone; the signal was
\* pending when epoll_wait returned, so the child was forked before that
ChildGone(pid) ==
    boot_alive' = IF pid = boot_pid THEN FALSE ELSE boot_alive

\* case SIGCHLD
HandleSigchld(pid, retval) ==
    /\ ProcessAlive
    /\ loop_pc = "events"
    /\ ready.sig
    /\ pid \notin born
    /\ ChildGone(pid)
    /\ LET svc       == service_find_by_pid(pid)
           svc_state == IF svc = NoSvc THEN STATE_DOWN ELSE services[svc].state
           e         == Event(IF svc # NoSvc THEN "SIGCHLD_SERVICE"
                              ELSE IF boot_pid = pid THEN "SIGCHLD_BOOTED"
                              ELSE "SIGCHLD_ZOMBIE")
       IN IF BootFailed(pid, retval)
          THEN /\ Break("ERROR_EPOLL_SIGNAL", Event("SIGCHLD_BOOTFAIL"))
               /\ UNCHANGED <<services, threads, halt_thread>>
          ELSE /\ services' = IF svc = NoSvc THEN services
                              ELSE service_set_down(services, svc)
               /\ IF HaltOnReap(svc, svc_state, retval)
                  THEN SpawnHaltThread(e)
                  ELSE /\ Continue([ready EXCEPT !.sig = FALSE], e)
                       /\ UNCHANGED <<threads, halt_thread>>
               /\ UNCHANGED exit_code
    /\ UNCHANGED <<is_halting, boot_pid, clients, born>>

\* case SIGTERM: case SIGINT:
HandleSigterm ==
    /\ ProcessAlive
    /\ loop_pc = "events"
    /\ ready.sig
    /\ IF is_halting
       THEN /\ Continue([ready EXCEPT !.sig = FALSE], Event("SIGTERM"))
            /\ UNCHANGED <<threads, halt_thread>>
       ELSE SpawnHaltThread(Event("SIGTERM"))
    /\ UNCHANGED <<born, is_halting, boot_pid, boot_alive, services, exit_code,
                   clients>>

\* case SIGHUP: if (is_halting) ignore, else init_apply()
AppliesOnSighup_always == TRUE

AppliesOnSighup == ~is_halting

\* case SIGHUP: init_apply() spawns PUPPETIZER_APPLY and drops its pid, or
\* spawn1 failed and fatal() ends the process
HandleSighup ==
    /\ ProcessAlive
    /\ loop_pc = "events"
    /\ ready.sig
    /\ IF ~AppliesOnSighup
       THEN Continue([ready EXCEPT !.sig = FALSE], Event("SIGHUP_IGNORED"))
       ELSE \/ Continue([ready EXCEPT !.sig = FALSE], Event("SIGHUP_APPLY"))
            \/ Fatal("ERROR_SPAWN_FAILED")
    /\ UNCHANGED <<born, is_halting, boot_pid, boot_alive, halt_thread, services,
                   threads, exit_code, clients>>

\* fd_client = accept(...); epoll_ctl(EPOLL_CTL_ADD) succeeded
AcceptClient(c) ==
    /\ ProcessAlive
    /\ loop_pc = "events"
    /\ ready.ctl
    /\ clients[c] = "free"
    /\ clients' = [clients EXCEPT ![c] = "open"]
    /\ Continue([ready EXCEPT !.ctl = FALSE], Event("ACCEPT"))
    /\ UNCHANGED <<born, is_halting, boot_pid, boot_alive, halt_thread, services,
                   threads, exit_code>>

\* epoll_ctl(EPOLL_CTL_ADD, fd_client) == -1
AcceptFails ==
    /\ ProcessAlive
    /\ loop_pc = "events"
    /\ ready.ctl
    /\ Break("ERROR_SOCKET_FAILED", Event("ACCEPTFAIL"))
    /\ UNCHANGED <<born, is_halting, boot_pid, boot_alive, halt_thread, services,
                   threads, clients>>

\* the end of the client branch: on errored, EPOLL_CTL_DEL and shutdown(fd)
FinishClient(fd, errored, del_ok, e) ==
    IF ~errored
    THEN /\ Continue([ready EXCEPT !.cl = @ \ {fd}], e)
         /\ UNCHANGED clients
    ELSE IF del_ok
    THEN /\ Continue([ready EXCEPT !.cl = @ \ {fd}], e)
         /\ clients' = [clients EXCEPT ![fd] = "shut"]
    ELSE /\ Fatal("ERROR_EPOLL_FAILED")
         /\ UNCHANGED clients

\* control_read_command returned S_SOCKET_EOF or another error status
ClientReadFails(fd, status, del_ok) ==
    /\ ProcessAlive
    /\ loop_pc = "events"
    /\ fd \in ready.cl
    /\ FinishClient(fd, TRUE, del_ok, Event(status))
    /\ UNCHANGED <<born, is_halting, boot_pid, boot_alive, halt_thread, services,
                   threads, exit_code>>

\* the command goes on to service_start / service_stop
CallsRegistry(svc, type) ==
    svc # NoSvc /\ type \in {"CMD_START", "CMD_STOP"} /\ ~is_halting

\* ret of a command that calls nothing in the registry
ImmediateResponse_gated(svc, type) ==
    IF svc = NoSvc \/ is_halting THEN CMD_RESPONSE_ERROR
    ELSE IF type = "CMD_STATUS" THEN StatusResponse(services[svc].state)
    ELSE CMD_RESPONSE_ERROR

ImmediateResponse(svc, type) ==
    IF svc = NoSvc THEN CMD_RESPONSE_ERROR
    ELSE IF type = "CMD_STATUS" THEN StatusResponse(services[svc].state)
    ELSE CMD_RESPONSE_ERROR

\* init_handle_client_command up to the call of service_start / service_stop
ClientCommand(fd, type, name, send_ok, del_ok) ==
    /\ ProcessAlive
    /\ loop_pc = "events"
    /\ fd \in ready.cl
    /\ LET svc == service_find_by_name(name)
       IN IF CallsRegistry(svc, type)
          THEN /\ loop_pc' = "call"
               /\ cur' = [fd |-> fd, type |-> type, svc |-> svc]
               /\ ev' = Event("none")
               /\ UNCHANGED <<ready, clients, exit_status>>
          ELSE FinishClient(fd, ~send_ok, del_ok,
                   Response(type, ImmediateResponse(svc, type)))
    /\ UNCHANGED <<born, is_halting, boot_pid, boot_alive, halt_thread, services,
                   threads, exit_code>>

\* ret = service_start(svc) / service_stop(svc) ? OK : FAILED, then send;
\* pid is the process service_start forked, NoPid when the call fails
ServiceCall(pid, send_ok, del_ok) ==
    /\ ProcessAlive
    /\ loop_pc = "call"
    /\ pid \in FreePids \cup {NoPid}
    /\ LET svc  == cur.svc
           done == IF cur.type = "CMD_START"
                   THEN service_can_start(services, svc, pid)
                   ELSE service_can_stop(services, svc)
       IN /\ cur.type = "CMD_STOP" => pid = NoPid
          /\ services' = IF ~done THEN services
                         ELSE IF cur.type = "CMD_START"
                         THEN service_start(services, svc, pid)
                         ELSE service_stop(services, svc)
          /\ born' = IF done /\ cur.type = "CMD_START" THEN born \cup {pid}
                     ELSE born
          /\ FinishClient(cur.fd, ~send_ok, del_ok,
                 Response(cur.type, IF done THEN CMD_RESPONSE_OK
                                    ELSE CMD_RESPONSE_FAILED))
    /\ UNCHANGED <<is_halting, boot_pid, boot_alive, halt_thread, threads,
                   exit_code>>

\* if (is_halting) { ...; break; }
LoopBreaks_busy == is_halting /\ service_count_by_state(STATE_DOWN, TRUE) # 0

LoopBreaks == is_halting

\* the end of one pass of for (;;): the test that leaves the loop
HaltingCheck ==
    /\ ProcessAlive
    /\ loop_pc = "events"
    /\ ready = NoReady
    /\ loop_pc' = IF LoopBreaks THEN "shutdown" ELSE "wait"
    /\ ev' = Event("none")
    /\ born' = {}
    /\ UNCHANGED <<is_halting, boot_pid, boot_alive, halt_thread, services,
                   threads, ready, exit_code, clients, cur, exit_status>>

\* pthread_join(halt_thread, NULL) returns once that thread has ended
Joinable ==
    halt_thread = NoThread \/ threads[halt_thread] \in {"noop", "done"}

\* shutdown(fd_control), unlink, join, return exit_code
LoopReturn ==
    /\ ProcessAlive
    /\ loop_pc = "shutdown"
    /\ Joinable
    /\ loop_pc' = "returned"
    /\ exit_status' = exit_code
    /\ UNCHANGED <<is_halting, boot_pid, boot_alive, halt_thread, services,
                   threads, ready, exit_code, clients, cur, born, ev>>

Next ==
    \/ EpollWait
    \/ EpollWaitFails
    \/ BadSignalRead
    \/ \E pid \in Pids, retval \in Retvals : HandleSigchld(pid, retval)
    \/ HandleSigterm
    \/ HandleSighup
    \/ \E c \in Clients : AcceptClient(c)
    \/ AcceptFails
    \/ \E fd \in Clients, status \in {"S_SOCKET_EOF", "S_ERROR"}, del_ok \in BOOLEAN :
          ClientReadFails(fd, status, del_ok)
    \/ \E fd \in Clients, type \in CommandTypes, name \in Services \cup {NoSvc},
          send_ok \in BOOLEAN, del_ok \in BOOLEAN :
          ClientCommand(fd, type, name, send_ok, del_ok)
    \/ \E pid \in Pids \cup {NoPid}, send_ok \in BOOLEAN, del_ok \in BOOLEAN :
          ServiceCall(pid, send_ok, del_ok)
    \/ HaltingCheck
    \/ LoopReturn
    \/ \E t \in Threads : HaltCheck(t)
    \/ \E t \in Threads : HaltSetFlag(t)
    \/ \E t \in Threads, ret \in Retvals : HaltApply(t, ret)
    \/ \E t \in Threads : HaltStopAll(t)

Spec == Init /\ [][Next]_vars

\* one step of the loop thread
LoopStep ==
    \/ EpollWait
    \/ EpollWaitFails
    \/ BadSignalRead
    \/ \E pid \in Pids, retval \in Retvals : HandleSigchld(pid, retval)
    \/ HandleSigterm
    \/ HandleSighup
    \/ \E c \in Clients : AcceptClient(c)
    \/ AcceptFails
    \/ \E fd \in Clients, status \in {"S_SOCKET_EOF", "S_ERROR"}, del_ok \in BOOLEAN :
          ClientReadFails(fd, status, del_ok)
    \/ \E fd \in Clients, type \in CommandTypes, name \in Services \cup {NoSvc},
          send_ok \in BOOLEAN, del_ok \in BOOLEAN :
          ClientCommand(fd, type, name, send_ok, del_ok)
    \/ \E pid \in Pids \cup {NoPid}, send_ok \in BOOLEAN, del_ok \in BOOLEAN :
          ServiceCall(pid, send_ok, del_ok)
    \/ HaltingCheck
    \/ LoopReturn

\* the loop thread is always scheduled: epoll_wait returns after 500 ms at
\* the latest, and every handler it calls returns
LiveSpec == Spec /\ WF_vars(LoopStep)

\* ------------------------------------------------------------- properties
SignalInputs == Pids \X Retvals

\* init_halt_thread() was called in this step: a worker was created, or
\* pthread_create failed and the process ended in fatal()
HaltTriggered ==
    NumCreated' > NumCreated \/ exit_status' = "ERROR_THREAD_FAILED"

\* workers that have entered the body of init_halt (past is_halting = TRUE)
InHaltBody == {t \in Threads : threads[t] \in {"apply", "stop_all", "done"}}

\* workers still between the convergence action and the end of stop-all
RunningHalt == {t \in Threads : threads[t] \in {"apply", "stop_all"}}

\* C1: at most one halt worker thread is ever created during the process
\* lifetime, whatever signals the loop dispatches.
C1_AtMostOneHaltThread == NumCreated <= 1

\* C2: the body of the halt procedure (convergence action with "halt", then
\* stop all services) is executed by at most one thread.
C2_HaltBodyAtMostOnce == Cardinality(InHaltBody) <= 1

\* C3: while is_halting is true the loop never performs the service_start /
\* service_stop call of a START or STOP command, and the response it sends
\* for a START or STOP command is ERROR.
C3_HaltGating ==
    [][is_halting =>
         /\ (loop_pc = "call" => loop_pc' = "call")
         /\ \A fd \in Clients, type \in {"CMD_START", "CMD_STOP"},
               name \in Services, send_ok \in BOOLEAN, del_ok \in BOOLEAN :
               (ClientCommand(fd, type, name, send_ok, del_ok) /\ send_ok)
                   => ev'.resp = CMD_RESPONSE_ERROR]_vars

\* C4: whenever the loop has left for (;;) through the halting check, every
\* service of the registry is in state DOWN.
C4_ExitOnlyWhenAllDown ==
    loop_pc = "shutdown" =>
        /\ service_count_by_state(STATE_DOWN, TRUE) = 0
        /\ \A s \in Services : services[s].state = STATE_DOWN

\* C5: when init_loop has returned, no halt worker is still running the halt
\* procedure (convergence action unfinished or stop-all not yet issued).
C5_WorkersJoinedBeforeReturn ==
    loop_pc = "returned" => RunningHalt = {}

\* C6: a SIGCHLD dispatched for the pid of a registered service leaves that
\* service DOWN, and triggers the halt exactly when the state before the reap
\* was not PENDING_DOWN or the exit code was non-zero.
C6_ReapCorrectness ==
    [][\A in \in SignalInputs :
         LET pid    == in[1]
             retval == in[2]
             svc    == service_find_by_pid(pid)
         IN (HandleSigchld(pid, retval) /\ svc # NoSvc) =>
                /\ services'[svc].state = STATE_DOWN
                /\ HaltTriggered <=> UnexpectedDeath(services[svc].state, retval)]_vars

\* C7: a SIGCHLD whose pid is neither boot_pid nor the pid of a registry entry
\* changes no service, not is_halting, creates no halt worker, leaves the
\* exit code alone and keeps the loop running.
C7_UnknownPidReap ==
    [][\A in \in SignalInputs :
         LET pid    == in[1]
             retval == in[2]
         IN (HandleSigchld(pid, retval) /\ pid # boot_pid
                 /\ service_find_by_pid(pid) = NoSvc) =>
                /\ UNCHANGED <<services, is_halting, threads, halt_thread,
                               exit_code, exit_status, clients, boot_alive>>
                /\ ~HaltTriggered
                /\ loop_pc' = "events"]_vars

\* C7 witness: the loop has just reaped a child it does not know.
C7_Witness == ev.kind = "SIGCHLD_ZOMBIE" /\ loop_pc = "events"

\* C8: once the boot process was reaped with a non-zero exit code the loop
\* waits for no further event, and init_loop returns the boot-failure code.
C8_BootFailureTerminates ==
    exit_code = "ERROR_EPOLL_SIGNAL" =>
        /\ loop_pc \notin {"wait", "call"}
        /\ loop_pc = "events" => ev.kind = "SIGCHLD_BOOTFAIL"
        /\ loop_pc = "returned" => exit_status = "ERROR_EPOLL_SIGNAL"

\* C9: a command naming no registry entry is answered FAILED_LOOKUP, calls
\* neither service_start nor service_stop and changes no service.
C9_UnknownService ==
    [][\A fd \in Clients, type \in CommandTypes, del_ok \in BOOLEAN :
         ClientCommand(fd, type, NoSvc, TRUE, del_ok) =>
             /\ ev'.resp = CMD_RESPONSE_FAILED_LOOKUP
             /\ loop_pc' # "call"
             /\ services' = services]_vars

\* C10: for every service state S the STATUS response decodes to the tag
\* STATE and to S, S << 4 fits the response word and the tag stays below the
\* state bits; and every STATUS response the loop sends for a known service
\* decodes to STATE and the state that service has.
C10_ResponseRoundTrip ==
    /\ \A S \in ServiceStates :
            /\ ResponseTag(StatusResponse(S)) = CMD_RESPONSE_STATE
            /\ ResponseState(StatusResponse(S)) = S
            /\ BitOr(ShiftLeft(S, TagBits), CMD_RESPONSE_STATE) < Pow2(ResponseBits)
            /\ CMD_RESPONSE_STATE < Pow2(TagBits)
    /\ [][\A fd \in Clients, name \in Services, del_ok \in BOOLEAN :
            ClientCommand(fd, "CMD_STATUS", name, TRUE, del_ok) =>
                /\ ResponseTag(ev'.resp) = CMD_RESPONSE_STATE
                /\ ResponseState(ev'.resp) = services[name].state]_vars

\* C10 witness: a STATUS response for a service that is not DOWN was sent.
C10_Witness ==
    /\ ev.kind = "CMD_STATUS"
    /\ ResponseTag(ev.resp) = CMD_RESPONSE_STATE
    /\ ResponseState(ev.resp) # STATE_DOWN

\* the loop has left for (;;), or the process ended in fatal()
LoopExited == loop_pc \in {"shutdown", "returned", "fatal"}

AllDown == service_count_by_state(STATE_DOWN, TRUE) = 0

\* C11: once is_halting is true and no service is counted as not DOWN, the
\* loop leaves for (;;) without any further event, and it returns to
\* epoll_wait at most once before it does.
C11_ShutdownCompletion ==
    /\ (is_halting /\ AllDown) ~> LoopExited
    /\ [][(is_halting /\ AllDown /\ loop_pc # "wait") => loop_pc' # "wait"]_vars

\* C11 witness: the loop has left for (;;) through the halting check while
\* halting with every service DOWN.
C11_Witness ==
    /\ loop_pc = "shutdown"
    /\ is_halting /\ AllDown
    /\ exit_code = "0"

\* services whose process has not been reaped
Unreaped == {s \in Services : services[s].pid # NoPid}

\* C12: while is_halting is true and some service is not DOWN, the halting
\* check sends the loop back to epoll_wait, so that the SIGCHLD of a service
\* that terminates is still dispatched; the loop leaves for (;;) only when
\* every registered service has been reaped and marked DOWN.
C12_ReapWhileHalting ==
    [][(HaltingCheck /\ is_halting) =>
          /\ ~AllDown => loop_pc' = "wait"
          /\ loop_pc' = "shutdown" => Unreaped = {}]_vars

\* C13: once the termination of the boot process has been observed, a SIGCHLD
\* is never handled by the boot outcome rule (boot failure, exit code set);
\* if its pid is that of a registered service, the service is marked DOWN and
\* the unexpected-death test decides about the halt.
C13_BootPidTracking ==
    [][\A in \in SignalInputs :
         LET pid    == in[1]
             retval == in[2]
             svc    == service_find_by_pid(pid)
         IN (HandleSigchld(pid, retval) /\ ~boot_alive) =>
                /\ ev'.kind # "SIGCHLD_BOOTFAIL"
                /\ exit_code' = exit_code
                /\ svc # NoSvc =>
                      /\ services'[svc].state = STATE_DOWN
                      /\ HaltTriggered <=>
                            UnexpectedDeath(services[svc].state, retval)]_vars

\* the loop drops connection fd in this step: EOF or a failed read, or a
\* response that could not be sent, with EPOLL_CTL_DEL succeeding
ReadErrorOn(fd) ==
    \E status \in {"S_SOCKET_EOF", "S_ERROR"} : ClientReadFails(fd, status, TRUE)

WriteErrorOn(fd) ==
    \/ \E type \in CommandTypes, name \in Services \cup {NoSvc} :
          ClientCommand(fd, type, name, FALSE, TRUE) /\ loop_pc' # "call"
    \/ \E pid \in Pids \cup {NoPid} : ServiceCall(pid, FALSE, TRUE) /\ cur.fd = fd

\* C14: a connection whose read ends in EOF or an error, or whose response
\* cannot be sent, is deregistered and its descriptor is released (free to be
\* handed out by accept again); the loop goes on with the batch; no other
\* connection, is_halting and exit_code change, and a failed read changes no
\* service.
C14_ClientLifetime ==
    [][\A fd \in Clients :
         (ReadErrorOn(fd) \/ WriteErrorOn(fd)) =>
             /\ clients'[fd] = "free"
             /\ fd \notin ready'.cl
             /\ loop_pc' = "events"
             /\ \A c \in Clients \ {fd} : clients'[c] = clients[c]
             /\ UNCHANGED <<is_halting, exit_code>>
             /\ ReadErrorOn(fd) => UNCHANGED services]_vars

\* C15: once a malformed signal record was read or the registration of an
\* accepted client failed, the loop dispatches no further event and does not
\* wait again; it runs the shutdown path and init_loop returns the exit code
\* of that condition, with the halt worker joined.
C15_FatalLoopConditions ==
    exit_code \in {"ERROR_EPOLL_SIGNAL_MESSAGE", "ERROR_SOCKET_FAILED"} =>
        /\ loop_pc \notin {"wait", "call"}
        /\ loop_pc = "events" =>
              ready = NoReady /\ ev.kind \in {"BADSIG", "ACCEPTFAIL"}
        /\ loop_pc = "returned" => exit_status = exit_code /\ Joinable

\* the events after which the loop sets exit_code and breaks
FatalKinds == {"BADSIG", "SIGCHLD_BOOTFAIL", "ACCEPTFAIL"}
FatalCodes == {"ERROR_EPOLL_SIGNAL_MESSAGE", "ERROR_EPOLL_SIGNAL",
               "ERROR_SOCKET_FAILED"}

\* C16: when the loop leaves for (;;) through the halting check and the pass
\* did not end in a fatal condition (a normal halt), exit_code is 0;
\* init_loop returns exit_code, and a non-zero value is one of the fatal
\* codes.
C16_ExitCodeOnHalt ==
    /\ [][(HaltingCheck /\ loop_pc' = "shutdown" /\ ev.kind \notin FatalKinds)
              => exit_code = "0"]_vars
    /\ [][LoopReturn =>
              /\ exit_status' = exit_code
              /\ exit_status' \in {"0"} \cup FatalCodes]_vars

\* what a SIGHUP leaves alone apart from the loop's position in the batch
SighupKeeps ==
    UNCHANGED <<is_halting, services, threads, halt_thread, exit_code,
                clients, boot_pid, boot_alive>>

\* C17 as stated: a SIGHUP dispatched while is_halting is false spawns one
\* reconverge action and changes neither is_halting, nor a service, nor the
\* loop (no halt worker, the loop keeps running); dispatched while is_halting
\* is true it spawns nothing and changes nothing.
C17_SighupAsStated ==
    [][HandleSighup =>
          /\ SighupKeeps
          /\ loop_pc' = "events" /\ exit_status' = "running"
          /\ ev'.kind = IF is_halting THEN "SIGHUP_IGNORED"
                        ELSE "SIGHUP_APPLY"]_vars

\* C17 amended: as stated, unless spawning the reconverge action fails: then
\* nothing is spawned and the process exits with the spawn-failure code,
\* which happens only while is_halting is false.
C17_SighupHandling ==
    [][HandleSighup =>
          /\ SighupKeeps
          /\ \/ /\ loop_pc' = "events" /\ exit_status' = "running"
                /\ ev'.kind = IF is_halting THEN "SIGHUP_IGNORED"
                              ELSE "SIGHUP_APPLY"
             \/ /\ ~is_halting
                /\ loop_pc' = "fatal"
                /\ exit_status' = "ERROR_SPAWN_FAILED"]_vars

\* C17 witness: a reconverge action was spawned by a SIGHUP, with no halt
\* worker created and the loop still in its batch.
C17_Witness ==
    /\ ev.kind = "SIGHUP_APPLY"
    /\ loop_pc = "events"
    /\ ~is_halting /\ NumCreated = 0

\* C18: is_halting is false until a halt worker exists, every write of it is
\* a change from false to true (so it is written at most once), and once
\* true it stays true.
C18_HaltFlagSetOnce ==
    /\ [](NumCreated = 0 => ~is_halting)
    /\ [][is_halting => is_halting']_vars
    /\ [][\A t \in Threads : HaltSetFlag(t) => ~is_halting]_vars

C20_HaltStepOrder ==
    /\ [](\A t \in Threads :
            threads[t] \in {"apply", "stop_all", "done"} => is_halting)
    /\ [][\A t \in Threads :
            /\ \A ret \in Retvals :
                  HaltApply(t, ret) => threads'[t] = "stop_all"
            /\ (threads'[t] = "apply" /\ threads[t] # "apply") =>
                  HaltSetFlag(t) /\ is_halting'
            /\ (threads'[t] = "stop_all" /\ threads[t] # "stop_all") =>
                  \E ret \in Retvals : HaltApply(t, ret)
            /\ (threads'[t] = "done" /\ threads[t] # "done") =>
                  HaltStopAll(t) /\ services' = service_stop_all(services)]_vars

\* C20 witness: a worker has run the halt procedure to its end and its
\* stop-all has left a service PENDING_DOWN.
C20_Witness ==
    /\ \E t \in Threads : threads[t] = "done"
    /\ \E s \in Services : services[s].state = STATE_PENDING_DOWN
    /\ is_halting

====
